---- MODULE Spec2Model ----
(***************************************************************************)
(* A model of scripts/sound_source_localization.py, class                  *)
(* SoundSourceLocation: the estimate generator (get_estimates and its      *)
(* helpers), the combination scheduler (process_potential_estimates, with  *)
(* its five worker threads per round) and the lazy driver                  *)
(* (generate_potential_sources).                                           *)
(*                                                                         *)
(* Representation.                                                         *)
(*  - A length is an integer number of 1/60 micrometre, so that the mean   *)
(*    of up to six microphone coordinates is an exact integer.             *)
(*  - A microphone name "mic<j>" is the integer j; a name that is no key   *)
(*    of the microphone dictionary is an integer outside 1..12.            *)
(*  - A cycle name "S<x>_Cycle<y>" is the pair <<x, y>>.                   *)
(*  - A signal row (a time series) is one natural number.                  *)
(*  - An angle is a whole number of quarter turns (pi/2), for which cos    *)
(*    and sin are exact.                                                   *)
(*  - A call's outcome is a record: [kind |-> "return", value |-> v] or    *)
(*    [kind |-> "raise", exc |-> e, msg |-> m].                            *)
(***************************************************************************)
EXTENDS Integers, Sequences, FiniteSets, TLC

VARIABLES
  \* the instance's attributes (__init__) and the external DOA solver
  s1_bool, combinations_number, num_sources, recovered, doa_fails,
  \* one call of process_potential_estimates: its locals and its position
  pc, all_sound_data, mics, mic_list, splits, mic_split_list, j,
  threads, estimates, outputs_list, result, runs,
  \* one generator made by generate_potential_sources, and its consumer
  gen_pc, gen_idx, calls, yielded, loaded, requests, last,
  \* one direct call of get_mic_match_with_sound_data and of get_estimates
  est_pc, arg_data, arg_mics, match_result, est_result,
  \* one direct call of get_sound_data, and the paths it hands to loadmat
  key_pc, arg_name, data_result, store_log

cfgVars == <<s1_bool, combinations_number, num_sources, recovered, doa_fails>>
frameVars == <<pc, all_sound_data, mics, mic_list, splits, mic_split_list, j,
               threads, estimates, outputs_list, result, runs>>
genVars == <<gen_pc, gen_idx, calls, yielded, loaded, requests, last>>
keyVars == <<key_pc, arg_name, data_result, store_log>>
estVars == <<est_pc, arg_data, arg_mics, match_result, est_result, keyVars>>
vars == <<cfgVars, frameVars, genVars, estVars>>

----------------------------------------------------------------------------
(* Bounds of the model *)

\* number of values of the radius grid (np.arange(0, 0.5, tol) has 500)
RadiusLen == 2
\* largest num_sources drawn for a direct call of get_estimates
MaxSources == 2
\* longest list of requested microphone names drawn for a direct call
MaxReq == 2
\* calls of process_potential_estimates made on one instance
MaxRuns == 2
\* calls of generate_potential_sources made on one instance
MaxCalls == 2
\* how far beyond S1..S2 and Cycle0..Cycle23 the names drawn for a direct
\* call of get_sound_data reach
NameSlack == 1

----------------------------------------------------------------------------
(* Outcomes and small helpers *)

Ret(v) == [kind |-> "return", value |-> v]

Raise(e, m) == [kind |-> "raise", exc |-> e, msg |-> m]

NoOutcome == [kind |-> "none"]

Range(s) == {s[i] : i \in 1..Len(s)}

RECURSIVE SumSeq(_)
SumSeq(s) == IF s = <<>> THEN 0 ELSE Head(s) + SumSeq(Tail(s))

RECURSIVE Flatten(_)
Flatten(ss) == IF ss = <<>> THEN <<>> ELSE Head(ss) \o Flatten(Tail(ss))

Units(micrometres) == micrometres * 60

\* cos and sin of q quarter turns
Cos4(q) == CASE q % 4 = 0 -> 1 [] q % 4 = 1 -> 0 [] q % 4 = 2 -> -1 [] OTHER -> 0

Sin4(q) == CASE q % 4 = 0 -> 0 [] q % 4 = 1 -> 1 [] q % 4 = 2 -> 0 [] OTHER -> -1

----------------------------------------------------------------------------
(* Geometry *)

x_locations == <<Units(-102235), Units(-52197), Units(-27304)>>

y_locations == <<Units(-109982)>>

z_locations == <<Units(56388), Units(1524), Units(-53340), Units(-108204)>>

\* [[x, y, z] for x in x_locations for y in y_locations for z in z_locations]
create_microphone_locations_list ==
  [n \in 1..(Len(x_locations) * Len(y_locations) * Len(z_locations)) |->
     LET zi == (n - 1) % Len(z_locations)
         yi == ((n - 1) \div Len(z_locations)) % Len(y_locations)
         xi == (n - 1) \div (Len(z_locations) * Len(y_locations))
     IN  <<x_locations[xi + 1], y_locations[yi + 1], z_locations[zi + 1]>>]

\* the radius grid np.arange(0, 0.5, tol): 0, tol, 2 tol, ... (tol = 1e-3 m)
tol == Units(1000)

radius == [r \in 1..RadiusLen |-> (r - 1) * tol]

\* room_dim / 2, room_dim = [0.34925, 0.219964, 0.2413] m
center_of_room == <<Units(349250) \div 2, Units(219964) \div 2, Units(241300) \div 2>>

\* scripts.utils.convert_to_one_list: the groups' elements in one list
convert_to_one_list(args) == Flatten(args)

\* get_centroid(*args): the mean location of args[1], a list of locations.
\* The locations come from the layout, three floats each, so the tests for
\* None, for unequal lengths and for non-floats (lines 102-110) do not fire.
get_centroid(args) ==
  IF convert_to_one_list(args) = <<>>
  THEN Raise("ValueError", "Error. Microphone location list is empty.")
  ELSE LET microphone_array == args[1]
           n == Len(microphone_array)
       IN  Ret([c \in 1..3 |->
                  SumSeq([m \in 1..n |-> microphone_array[m][c]]) \div n])

----------------------------------------------------------------------------
(* Signal access: microphones matched to the rows of a signal matrix *)

MismatchText == "Error. Mismatch in length of microphone location list and length of signal list."

\* The order a sorted() over the requested names would give (used by a faulty variant).
RECURSIVE SortedNames(_)
SortedNames(args) ==
  IF args = <<>> THEN <<>>
  ELSE LET lo == CHOOSE a \in Range(args) : \A b \in Range(args) : a <= b
           at == CHOOSE i \in 1..Len(args) : args[i] = lo
       IN  <<lo>> \o SortedNames(SubSeq(args, 1, at - 1) \o SubSeq(args, at + 1, Len(args)))

\* the entries in the dictionary's order, not the requested one (a faulty variant)
LookUpInDictOrder(dict, args) ==
  LET found == SelectSeq(SortedNames(args), LAMBDA arg : arg \in DOMAIN dict)
  IN  [type |-> "tuple",
       signal_list |-> [i \in 1..Len(found) |-> dict[found[i]][2]],
       mic_location |-> [i \in 1..Len(found) |-> dict[found[i]][1]]]

\* the loop over args of lines 211-214, given the dictionary
LookUp(dict, args) ==
  LET found == SelectSeq(args, LAMBDA arg : arg \in DOMAIN dict)
  IN  [type |-> "tuple",
       signal_list |-> [i \in 1..Len(found) |-> dict[found[i]][2]],
       mic_location |-> [i \in 1..Len(found) |-> dict[found[i]][1]]]

\* get_mic_match_with_sound_data(data, *args).  A signal matrix is numeric, so
\* the tests `None in data` and `"" in data.tolist()` (lines 184-188) are false.
get_mic_match_with_sound_data(data, args) ==
  IF Len(data) = 0
  THEN Raise("ValueError", "Error. The signal is empty.")
  ELSE IF convert_to_one_list(<<args>>) = <<>>
  THEN Raise("ValueError", "Error. Microphone list is empty.")
  ELSE LET all_microphone_locations == create_microphone_locations_list
       IN  IF Len(all_microphone_locations) = Len(data)
           THEN LET all_microphone_locations_and_data ==
                      [n \in 1..Len(data) |-> <<all_microphone_locations[n], data[n]>>]
                    \* key "mic" + str(n + 1) for n in range(len(...)): here n is 1-based
                    microphones_locations_and_signals_dict ==
                      [n \in 1..Len(all_microphone_locations_and_data) |->
                         all_microphone_locations_and_data[n]]
                IN  Ret(LookUp(microphones_locations_and_signals_dict, args))
           ELSE Ret([type |-> "str", text |-> MismatchText])

----------------------------------------------------------------------------
(* The DOA adapter: a deterministic stand-in for the external solver *)

\* difference_of_arrivals(signal_list, *mic_location): an azimuth and a
\* co-latitude per requested source, in quarter turns; the external solver
\* fails on the microphone geometries in doa_fails.  The signals are numeric
\* rows, so the tests for None (lines 245-256) do not fire.
difference_of_arrivals(signal_list, mic_location) ==
  IF signal_list = <<>>
  THEN Raise("ValueError", "Error. Signal list is empty.")
  ELSE IF mic_location \in doa_fails
  THEN Raise("EstimationError", "the DOA solver failed")
  ELSE LET s == SumSeq(signal_list)
       IN  Ret([azimuth_recon |-> [i \in 1..num_sources |-> (s + i) % 4],
                colatitude_recon |-> [i \in 1..num_sources |-> ((s \div 4 + i) % 3) - 1]])

----------------------------------------------------------------------------
(* The estimate generator *)

\* self.radius * row + np.array(the_centroid)[np.newaxis, :], for one 1x3 row
ScaleAndRecenter(row, the_centroid) ==
  [r \in 1..Len(radius) |-> [c \in 1..3 |-> radius[r] * row[c] + the_centroid[c]]]

\* the centroid of the whole array (used by a faulty variant)
GlobalCentroid == get_centroid(<<create_microphone_locations_list>>).value

split_and_conquer_global(the_centroid, cartesian_arr) ==
  LET transposed == [i \in 1..Len(cartesian_arr[1]) |->
                       <<cartesian_arr[1][i], cartesian_arr[2][i], cartesian_arr[3][i]>>]
  IN  Flatten([i \in 1..num_sources |-> ScaleAndRecenter(transposed[i], GlobalCentroid)])

\* split_and_conquer(the_centroid, cartesian_arr): cartesian_arr is 3 x n
split_and_conquer(the_centroid, cartesian_arr) ==
  LET transposed == [i \in 1..Len(cartesian_arr[1]) |->
                       <<cartesian_arr[1][i], cartesian_arr[2][i], cartesian_arr[3][i]>>]
      rows == Len(transposed) \div num_sources
      \* np.vsplit(cartesian_arr.T, self.num_sources)
      array_split == [i \in 1..num_sources |->
                        SubSeq(transposed, (i - 1) * rows + 1, i * rows)]
      scaled == [i \in 1..num_sources |-> ScaleAndRecenter(array_split[i][1], the_centroid)]
  IN  Flatten(scaled)

\* get_estimates(sound_data, *mic_split)
get_estimates(sound_data, mic_split) ==
  IF mic_split = <<>>
  THEN Raise("ValueError", "Error. Mic split list is empty.")
  ELSE LET matched == get_mic_match_with_sound_data(sound_data, mic_split)
       IN
  IF matched.kind = "raise" THEN matched
  ELSE IF matched.value.type = "str"
  THEN \* signal, mic_locations = <a string of more than two characters>
       Raise("ValueError", "too many values to unpack (expected 2)")
  ELSE LET signal == matched.value.signal_list
           mic_locations == matched.value.mic_location
           centroid == get_centroid(<<mic_locations>>)
       IN
  IF centroid.kind = "raise" THEN centroid
  ELSE LET doa == difference_of_arrivals(signal, mic_locations)
       IN
  IF doa.kind = "raise" THEN doa
  ELSE LET az == doa.value.azimuth_recon
           co == doa.value.colatitude_recon
           cartesian_coordinates ==
             << [i \in 1..Len(az) |-> Cos4(az[i]) * Sin4(co[i])],
                [i \in 1..Len(az) |-> Sin4(az[i]) * Sin4(co[i])],
                [i \in 1..Len(az) |-> Cos4(co[i])] >>
       IN  IF num_sources > 1
           THEN Ret(split_and_conquer(centroid.value, cartesian_coordinates))
           ELSE Ret(ScaleAndRecenter(<<cartesian_coordinates[1][1],
                                       cartesian_coordinates[2][1],
                                       cartesian_coordinates[3][1]>>, centroid.value))

----------------------------------------------------------------------------
(* Values of the variables a specification does not use *)

FrameIdle ==
  /\ pc = "idle" /\ all_sound_data = <<>> /\ mics = <<>> /\ mic_list = <<>>
  /\ splits = 0 /\ mic_split_list = <<>> /\ j = 0 /\ threads = <<>>
  /\ estimates = <<>> /\ outputs_list = <<>> /\ result = NoOutcome /\ runs = <<>>

GenIdle ==
  /\ gen_pc = "none" /\ gen_idx = 0 /\ calls = 0 /\ yielded = <<>>
  /\ loaded = <<>> /\ requests = 0 /\ last = NoOutcome

EstIdle ==
  /\ est_pc = "none" /\ arg_data = <<>> /\ arg_mics = <<>>
  /\ match_result = NoOutcome /\ est_result = NoOutcome

KeyIdle ==
  /\ key_pc = "none" /\ arg_name = <<0, 0>>
  /\ data_result = NoOutcome /\ store_log = <<>>

----------------------------------------------------------------------------
(* SpecEst: get_mic_match_with_sound_data and get_estimates called directly *)

\* a signal matrix of n rows
Matrix(n, seed) == [i \in 1..n |-> (seed * i + seed \div 2) % 7]

\* row counts: none, one, one fewer than, exactly and one more than the 12 microphones
RowCounts == {0, 1, 11, 12, 13}

EstData == {Matrix(n, seed) : n \in RowCounts, seed \in {1, 3}}

\* requested names: mic1, mic2, mic7, mic12, and two that are no microphone's
EstNames == {0, 1, 2, 7, 12, 13}

EstRequests == UNION {[1..n -> EstNames] : n \in 0..MaxReq}

\* geometries the solver fails on
Locs(names) == [i \in 1..Len(names) |-> create_microphone_locations_list[names[i]]]

EstFaults == {{}, {Locs(<<7, 12>>)}}

InitEst ==
  /\ s1_bool = TRUE /\ combinations_number = 3
  /\ num_sources \in 1..MaxSources
  /\ recovered = FALSE
  /\ doa_fails \in EstFaults
  /\ FrameIdle /\ GenIdle /\ KeyIdle
  /\ est_pc = "args"
  /\ arg_data \in EstData
  /\ arg_mics \in EstRequests
  /\ match_result = NoOutcome /\ est_result = NoOutcome

CallMatch ==
  /\ est_pc = "args"
  /\ match_result' = get_mic_match_with_sound_data(arg_data, arg_mics)
  /\ est_pc' = "matched"
  /\ UNCHANGED <<cfgVars, frameVars, genVars, keyVars, arg_data, arg_mics, est_result>>

CallEstimates ==
  /\ est_pc = "matched"
  /\ est_result' = get_estimates(arg_data, arg_mics)
  /\ est_pc' = "done"
  /\ UNCHANGED <<cfgVars, frameVars, genVars, keyVars, arg_data, arg_mics, match_result>>

NextEst == CallMatch \/ CallEstimates

SpecEst == InitEst /\ [][NextEst]_vars

----------------------------------------------------------------------------
(* The recorded-signal store and get_sound_data *)

\* range(24): the cycles of a source
NumCycles == 24

\* the names f'S{x}_Cycle{y}' for x in range(1, 3) for y in range(NumCycles)
CycleNames == {<<x, y>> : x \in 1..2, y \in 0..(NumCycles - 1)}

\* filepath + f'Recovered_S{x}/S{x}_Cycle{y}' or filepath + f'S{x}/S{x}_Cycle{y}'
FilePath(rec, x, y) == [recovered_dir |-> rec, source |-> x, cycle |-> y]

\* the dictionary built one source and one cycle too far, range(1, 4) and
\* range(25) (a faulty variant)
source_name_dict_wide ==
  [name \in {<<x, y>> : x \in 1..3, y \in 0..NumCycles} |->
     [path |-> FilePath(recovered, name[1], name[2]), variable |-> name[1]]]

\* lines 139-144: name -> [path under filepath, variable name f'S{x}']
source_name_dict ==
  [name \in CycleNames |->
     [path |-> FilePath(recovered, name[1], name[2]), variable |-> name[1]]]

\* sio.loadmat(path): the stored file, holding under the source's name a
\* matrix of 12 rows (one per microphone channel)
loadmat(path) ==
  [variable \in {path.source} |->
     [i \in 1..12 |->
        (i * (path.cycle + 2) + path.source + (IF path.recovered_dir THEN 3 ELSE 0)) % 7]]

\* get_sound_data(name_of_source): lines 132-154
get_sound_data(name_of_source) ==
  IF name_of_source \notin DOMAIN source_name_dict
  THEN Raise("NameError", "name not in cycle list")
  ELSE LET full_data_file_path == source_name_dict[name_of_source].path
           data == loadmat(full_data_file_path)
       IN  Ret(data[source_name_dict[name_of_source].variable])

\* the paths get_sound_data(name_of_source) hands to sio.loadmat: none when
\* the name is refused on lines 146-147, else the one of lines 150-152
StoreQueries(name_of_source) ==
  IF name_of_source \notin DOMAIN source_name_dict
  THEN <<>>
  ELSE <<source_name_dict[name_of_source].path>>

----------------------------------------------------------------------------
(* SpecKey: get_sound_data called directly *)

\* names f'S{x}_Cycle{y}' inside and around {S1, S2} x {Cycle0 .. Cycle23}
KeyNames ==
  {<<x, y>> : x \in (1 - NameSlack)..(2 + NameSlack),
              y \in (0 - NameSlack)..(NumCycles - 1 + NameSlack)}

InitKey ==
  /\ s1_bool = TRUE /\ combinations_number = 3 /\ num_sources = 1
  /\ recovered \in BOOLEAN
  /\ doa_fails = {}
  /\ FrameIdle /\ GenIdle /\ EstIdle
  /\ key_pc = "args"
  /\ arg_name \in KeyNames
  /\ data_result = NoOutcome
  /\ store_log = <<>>

\* a call get_sound_data(arg_name); self.recovered is a bool, so the test of
\* lines 132-134 does not fire
CallGetSoundData ==
  /\ key_pc = "args"
  /\ data_result' = get_sound_data(arg_name)
  /\ store_log' = store_log \o StoreQueries(arg_name)
  /\ key_pc' = "done"
  /\ UNCHANGED <<cfgVars, frameVars, genVars, est_pc, arg_data, arg_mics,
                 match_result, est_result, arg_name>>

NextKey == CallGetSoundData

SpecKey == InitKey /\ [][NextKey]_vars

----------------------------------------------------------------------------
(* ThreadWithReturnValue (scripts.utils): a thread that keeps its target's    *)
(* outcome; join() waits for the target to finish, then hands back its        *)
(* return value, and a failure of the target fails the join.                  *)

NewThread(args) == [state |-> "created", args |-> args, ret |-> NoOutcome]

ThreadStarted(t) == [t EXCEPT !.state = "started"]

ThreadFinished(t, outcome) == [t EXCEPT !.state = "finished", !.ret = outcome]

ThreadCanJoin(t) == t.state = "finished"

ThreadJoined(t) == [t EXCEPT !.state = "joined"]

----------------------------------------------------------------------------
(* The combination scheduler: process_potential_estimates, step by step *)

S1Pool == <<2, 3, 6, 7, 10, 11>>

S2Pool == <<1, 2, 5, 6, 9, 10>>

\* lines 372-380
SelectMics(s1) == IF s1 THEN S1Pool ELSE S2Pool

\* itertools.combinations(pool, k), in its lexicographic order of positions
RECURSIVE combinations(_, _)
combinations(pool, k) ==
  IF k = 0 THEN << <<>> >>
  ELSE IF Len(pool) < k THEN <<>>
  ELSE LET with == combinations(Tail(pool), k - 1)
       IN  [i \in 1..Len(with) |-> <<Head(pool)>> \o with[i]]
             \o combinations(Tail(pool), k)

\* lines 387-388: [mic_list[i*splits:(i+1)*splits] for i in range((len+splits-1)//splits)]
SplitChunks(list, n) ==
  [i \in 1..((Len(list) + n - 1) \div n) |->
     SubSeq(list, (i - 1) * n + 1,
            IF i * n <= Len(list) THEN i * n ELSE Len(list))]

\* the thread objects thread1..thread5 of the current round
Current == threads[Len(threads)]

Started(b) == Current[b].state # "created"

\* a call's outcome is kept by the caller
Finish(outcome) ==
  /\ result' = outcome
  /\ runs' = Append(runs, outcome)

\* outputs_list kept from one call to the next, as an attribute of the
\* instance would be (a faulty variant)
PCCallKeepsOutputs ==
  /\ pc \in {"idle", "returned", "raised"}
  /\ Len(runs) < MaxRuns
  /\ mics' = SelectMics(s1_bool)
  /\ mic_list' = combinations(mics', combinations_number)
  /\ splits' = Len(mic_list') \div 5
  /\ threads' = <<>>
  /\ estimates' = <<>>
  /\ j' = 0
  /\ IF splits' = 0
     THEN /\ mic_split_list' = <<>>
          /\ pc' = "raised"
          /\ Finish(Raise("ZeroDivisionError", "integer division or modulo by zero"))
     ELSE /\ mic_split_list' = SplitChunks(mic_list', splits')
          /\ pc' = "loop"
          /\ result' = NoOutcome
          /\ UNCHANGED runs
  /\ UNCHANGED <<cfgVars, genVars, estVars, all_sound_data, outputs_list>>

\* a call process_potential_estimates(all_sound_data): lines 372-390
PCCall ==
  /\ pc \in {"idle", "returned", "raised"}
  /\ Len(runs) < MaxRuns
  /\ mics' = SelectMics(s1_bool)
  /\ mic_list' = combinations(mics', combinations_number)
  /\ splits' = Len(mic_list') \div 5
  /\ threads' = <<>>
  /\ estimates' = <<>>
  /\ outputs_list' = <<>>
  /\ j' = 0
  /\ IF splits' = 0
     THEN \* range((len(mic_list) + splits - 1) // splits)
          /\ mic_split_list' = <<>>
          /\ pc' = "raised"
          /\ Finish(Raise("ZeroDivisionError", "integer division or modulo by zero"))
     ELSE /\ mic_split_list' = SplitChunks(mic_list', splits')
          /\ pc' = "loop"
          /\ result' = NoOutcome
          /\ UNCHANGED runs
  /\ UNCHANGED <<cfgVars, genVars, estVars, all_sound_data>>

\* the threads made batch by batch from consecutive subsets (a faulty variant):
\* thread b of round j gets subset 5 j + b of the enumeration
PCCreateRoundByRound ==
  /\ pc = "loop"
  /\ j < splits
  /\ threads' = Append(threads,
                  [b \in 1..5 |-> NewThread(mic_list[5 * j + b])])
  /\ pc' = "start"
  /\ UNCHANGED <<cfgVars, genVars, estVars, all_sound_data, mics, mic_list, splits,
                 mic_split_list, j, estimates, outputs_list, result, runs>>

\* thread5 made with the subset of thread4, mic_split_list[3][j], as after a
\* copied line left unedited (a faulty variant)
PCCreateCopiedLine ==
  /\ pc = "loop"
  /\ j < splits
  /\ threads' = Append(threads,
                  [b \in 1..5 |->
                     NewThread(mic_split_list[IF b = 5 THEN 4 ELSE b][j + 1])])
  /\ pc' = "start"
  /\ UNCHANGED <<cfgVars, genVars, estVars, all_sound_data, mics, mic_list, splits,
                 mic_split_list, j, estimates, outputs_list, result, runs>>

\* lines 394-409: for j in range(splits), the five threads of round j
PCCreate ==
  /\ pc = "loop"
  /\ j < splits
  /\ threads' = Append(threads,
                  [b \in 1..5 |-> NewThread(mic_split_list[b][j + 1])])
  /\ pc' = "start"
  /\ UNCHANGED <<cfgVars, genVars, estVars, all_sound_data, mics, mic_list, splits,
                 mic_split_list, j, estimates, outputs_list, result, runs>>

\* the round's threads started and the round left without a join (a faulty variant)
PCStartNoJoin(b) ==
  /\ pc = "start"
  /\ Current[b].state = "created"
  /\ \A a \in 1..(b - 1) : Started(a)
  /\ threads' = [threads EXCEPT ![Len(threads)][b] = ThreadStarted(@)]
  /\ pc' = IF b = 5 THEN "extend" ELSE "start"
  /\ UNCHANGED <<cfgVars, genVars, estVars, all_sound_data, mics, mic_list, splits,
                 mic_split_list, j, estimates, outputs_list, result, runs>>

\* lines 412-416: thread1.start() ... thread5.start(), in this order
PCStart(b) ==
  /\ pc = "start"
  /\ Current[b].state = "created"
  /\ \A a \in 1..(b - 1) : Started(a)
  /\ threads' = [threads EXCEPT ![Len(threads)][b] = ThreadStarted(@)]
  /\ pc' = IF b = 5 THEN "join" ELSE "start"
  /\ UNCHANGED <<cfgVars, genVars, estVars, all_sound_data, mics, mic_list, splits,
                 mic_split_list, j, estimates, outputs_list, result, runs>>

\* a started worker runs its target, get_estimates(all_sound_data, *subset),
\* at any time; it reads the instance and the signal matrix and writes neither
WorkerRun(b) ==
  /\ threads # <<>>
  /\ Current[b].state = "started"
  /\ threads' = [threads EXCEPT ![Len(threads)][b] =
                   ThreadFinished(@, get_estimates(all_sound_data, @.args))]
  /\ UNCHANGED <<cfgVars, genVars, estVars, pc, all_sound_data, mics, mic_list, splits,
                 mic_split_list, j, estimates, outputs_list, result, runs>>

\* a failed worker's join taken as an empty estimate (a faulty variant)
PCJoinSwallow(b) ==
  /\ pc = "join"
  /\ b = Len(estimates) + 1
  /\ ThreadCanJoin(Current[b])
  /\ threads' = [threads EXCEPT ![Len(threads)][b] = ThreadJoined(@)]
  /\ estimates' = Append(estimates,
                    IF Current[b].ret.kind = "raise" THEN <<>> ELSE Current[b].ret.value)
  /\ pc' = IF b = 5 THEN "extend" ELSE "join"
  /\ UNCHANGED <<result, runs>>
  /\ UNCHANGED <<cfgVars, genVars, estVars, all_sound_data, mics, mic_list, splits,
                 mic_split_list, j, outputs_list>>

\* lines 418-422: estimate_b = thread_b.join(), in the order thread1..thread5;
\* nothing catches a failure of the join
PCJoin(b) ==
  /\ pc = "join"
  /\ b = Len(estimates) + 1
  /\ ThreadCanJoin(Current[b])
  /\ threads' = [threads EXCEPT ![Len(threads)][b] = ThreadJoined(@)]
  /\ IF Current[b].ret.kind = "raise"
     THEN /\ pc' = "raised"
          /\ Finish(Current[b].ret)
          /\ UNCHANGED estimates
     ELSE /\ estimates' = Append(estimates, Current[b].ret.value)
          /\ pc' = IF b = 5 THEN "extend" ELSE "join"
          /\ UNCHANGED <<result, runs>>
  /\ UNCHANGED <<cfgVars, genVars, estVars, all_sound_data, mics, mic_list, splits,
                 mic_split_list, j, outputs_list>>

\* lines 424-425: outputs_list.extend((estimate_1, ..., estimate_5))
PCExtend ==
  /\ pc = "extend"
  /\ outputs_list' = outputs_list \o estimates
  /\ estimates' = <<>>
  /\ j' = j + 1
  /\ pc' = "loop"
  /\ UNCHANGED <<cfgVars, genVars, estVars, all_sound_data, mics, mic_list, splits,
                 mic_split_list, threads, result, runs>>

\* lines 427-443: the blocks reshaped to one list of points, each moved by
\* the centre of the room
Recentre(blocks) ==
  LET potential_sources == Flatten(blocks)
  IN  [p \in 1..Len(potential_sources) |->
         [c \in 1..3 |-> center_of_room[c] + potential_sources[p][c]]]

PCReturn ==
  /\ pc = "loop"
  /\ j = splits
  /\ pc' = "returned"
  /\ Finish(Ret(Recentre(outputs_list)))
  /\ UNCHANGED <<cfgVars, genVars, estVars, all_sound_data, mics, mic_list, splits,
                 mic_split_list, j, threads, estimates, outputs_list>>

\* signal matrices handed to process_potential_estimates: two stored cycles
\* and a matrix of 11 rows
CycleData == {loadmat(FilePath(FALSE, 1, 0))[1], loadmat(FilePath(FALSE, 2, 5))[2], Matrix(11, 1)}

\* geometries the solver fails on: none; a subset of both pools; the first
\* subset of either pool; the last subset of either pool
CycleFaults == { {},
                 {Locs(<<2, 6, 10>>)},
                 {Locs(<<2, 3, 6>>), Locs(<<1, 2, 5>>)},
                 {Locs(<<7, 10, 11>>), Locs(<<6, 9, 10>>)} }

InitCycle ==
  /\ s1_bool \in BOOLEAN
  /\ combinations_number \in 1..6
  /\ num_sources = 1
  /\ recovered = FALSE
  /\ doa_fails \in CycleFaults
  /\ GenIdle /\ EstIdle /\ KeyIdle
  /\ pc = "idle"
  /\ all_sound_data \in CycleData
  /\ mics = <<>> /\ mic_list = <<>> /\ splits = 0 /\ mic_split_list = <<>>
  /\ j = 0 /\ threads = <<>> /\ estimates = <<>> /\ outputs_list = <<>>
  /\ result = NoOutcome /\ runs = <<>>

NextCycle ==
  \/ PCCall
  \/ PCCreate
  \/ \E b \in 1..5 : PCStart(b)
  \/ \E b \in 1..5 : WorkerRun(b)
  \/ \E b \in 1..5 : PCJoin(b)
  \/ PCExtend
  \/ PCReturn

SpecCycle == InitCycle /\ [][NextCycle]_vars

----------------------------------------------------------------------------
(* The lazy driver: generate_potential_sources and its consumer (SpecGen) *)

\* lines 446-449: ['S1_Cycle0', ..., 'S1_Cycle23', 'S2_Cycle0', ..., 'S2_Cycle23']
sound_list ==
  LET cycles == [i \in 1..NumCycles |-> i - 1]
      sound_sources == <<1, 2>>
  IN  [n \in 1..(Len(sound_sources) * Len(cycles)) |->
         <<sound_sources[((n - 1) \div Len(cycles)) + 1], cycles[((n - 1) % Len(cycles)) + 1]>>]

\* lines 452-453: ['S2_Cycle' + str(j) for j in range(24)]
S2Names == {<<2, y>> : y \in 0..(NumCycles - 1)}

\* One whole call process_potential_estimates(data) with self.s1_bool = s1:
\* the outcome of the steps PCCall .. PCReturn (ProcessAgrees, below, checks
\* that under SpecCycle).  The joins are made round by round in the order
\* thread1..thread5, so the failure raised is the first in that order.
EstimatesInJoinOrder(data, chunks, rounds) ==
  [p \in 1..(5 * rounds) |->
     get_estimates(data, chunks[((p - 1) % 5) + 1][((p - 1) \div 5) + 1])]

Collect(ests) ==
  LET failed == {p \in 1..Len(ests) : ests[p].kind = "raise"}
  IN  IF failed # {}
      THEN ests[CHOOSE p \in failed : \A q \in failed : p <= q]
      ELSE Ret(Recentre([p \in 1..Len(ests) |-> ests[p].value]))

ProcessList(data, the_list, the_splits) ==
  IF the_splits = 0
  THEN Raise("ZeroDivisionError", "integer division or modulo by zero")
  ELSE Collect(EstimatesInJoinOrder(data, SplitChunks(the_list, the_splits), the_splits))

ProcessSubsets(data, the_list) == ProcessList(data, the_list, Len(the_list) \div 5)

ProcessOutcome(data, s1) ==
  ProcessSubsets(data, combinations(SelectMics(s1), combinations_number))

\* the first signal matrix loaded when the generator is made (a faulty variant)
GenCallEager ==
  /\ gen_pc \in {"none", "created", "suspended", "done", "failed"}
  /\ calls < MaxCalls
  /\ calls' = calls + 1
  /\ gen_pc' = "created"
  /\ gen_idx' = 0
  /\ yielded' = <<>>
  /\ loaded' = <<sound_list[1]>>
  /\ requests' = 0
  /\ last' = NoOutcome
  /\ UNCHANGED <<cfgVars, frameVars, estVars>>

\* the consumer calls generate_potential_sources(): a new generator, none of
\* whose body has run; an earlier generator of the instance is dropped
GenCall ==
  /\ gen_pc \in {"none", "created", "suspended", "done", "failed"}
  /\ calls < MaxCalls
  /\ calls' = calls + 1
  /\ gen_pc' = "created"
  /\ gen_idx' = 0
  /\ yielded' = <<>>
  /\ loaded' = <<>>
  /\ requests' = 0
  /\ last' = NoOutcome
  /\ UNCHANGED <<cfgVars, frameVars, estVars>>

\* the consumer requests the next pair: the generator's body resumes
GenNext ==
  /\ gen_pc \in {"created", "suspended"}
  /\ requests' = requests + 1
  /\ gen_pc' = "running"
  /\ UNCHANGED <<cfgVars, frameVars, estVars, gen_idx, calls, yielded, loaded, last>>

\* lines 451-455: the next source_name, the switch of s1_bool, get_sound_data
GenLoad ==
  /\ gen_pc = "running"
  /\ gen_idx < Len(sound_list)
  /\ LET source_name == sound_list[gen_idx + 1]
         sound_data_of_interest == get_sound_data(source_name)
     IN  /\ s1_bool' = IF source_name \in S2Names THEN FALSE ELSE s1_bool
         /\ loaded' = Append(loaded, source_name)
         /\ IF sound_data_of_interest.kind = "raise"
            THEN /\ gen_pc' = "failed"
                 /\ last' = sound_data_of_interest
                 /\ UNCHANGED all_sound_data
            ELSE /\ gen_pc' = "loaded"
                 /\ all_sound_data' = sound_data_of_interest.value
                 /\ UNCHANGED last
  /\ UNCHANGED <<combinations_number, num_sources, recovered, doa_fails, estVars,
                 pc, mics, mic_list, splits, mic_split_list, j, threads, estimates,
                 outputs_list, result, runs, gen_idx, calls, yielded, requests>>

\* line 456: yield source_name, self.process_potential_estimates(...)
GenProcess ==
  /\ gen_pc = "loaded"
  /\ LET source_name == sound_list[gen_idx + 1]
     IN  /\ mics' = SelectMics(s1_bool)
         /\ result' = ProcessOutcome(all_sound_data, s1_bool)
         /\ IF result'.kind = "raise"
            THEN /\ gen_pc' = "failed"
                 /\ last' = result'
                 /\ UNCHANGED <<gen_idx, yielded>>
            ELSE /\ gen_pc' = "suspended"
                 /\ last' = [kind |-> "yield", name |-> source_name, points |-> result'.value]
                 /\ yielded' = Append(yielded, source_name)
                 /\ gen_idx' = gen_idx + 1
  /\ UNCHANGED <<cfgVars, estVars, pc, all_sound_data, mic_list, splits, mic_split_list,
                 j, threads, estimates, outputs_list, runs, calls, loaded, requests>>

\* the for loop over sound_list has ended: StopIteration
GenExhausted ==
  /\ gen_pc = "running"
  /\ gen_idx = Len(sound_list)
  /\ gen_pc' = "done"
  /\ UNCHANGED <<cfgVars, frameVars, estVars, gen_idx, calls, yielded, loaded, requests, last>>

\* geometries the solver fails on: none; the last subset of the S2 pool
GenFaults == { {}, {Locs(<<6, 9, 10>>)} }

InitGen ==
  /\ s1_bool = TRUE
  /\ combinations_number = 3
  /\ num_sources = 1
  /\ recovered \in BOOLEAN
  /\ doa_fails \in GenFaults
  /\ FrameIdle /\ EstIdle /\ KeyIdle
  /\ gen_pc = "none" /\ gen_idx = 0 /\ calls = 0 /\ yielded = <<>>
  /\ loaded = <<>> /\ requests = 0 /\ last = NoOutcome

NextGen ==
  \/ GenCall
  \/ GenNext
  \/ GenLoad
  \/ GenProcess
  \/ GenExhausted

SpecGen == InitGen /\ [][NextGen]_vars

----------------------------------------------------------------------------
(* Claims about generate_potential_sources (SpecGen) *)

PoolOfSource(x) == IF x = 1 THEN <<2, 3, 6, 7, 10, 11>> ELSE <<1, 2, 5, 6, 9, 10>>

\* C1: on every call of generate_potential_sources, every S1_Cycle* item is
\* processed with the S1 pool and every S2_Cycle* item with the S2 pool,
\* whatever earlier iterations of the instance did.
C1_PoolFollowsSource ==
  (gen_pc = "suspended" /\ last.kind = "yield") =>
     /\ mics = PoolOfSource(last.name[1])
     /\ last.points = ProcessOutcome(all_sound_data, last.name[1] = 1).value

\* S1_Cycle0 .. S1_Cycle23, then S2_Cycle0 .. S2_Cycle23
ExpectedNames == [n \in 1..48 |-> IF n <= 24 THEN <<1, n - 1>> ELSE <<2, n - 25>>]

\* C7: the pairs come in the order S1_Cycle0..S1_Cycle23, S2_Cycle0..S2_Cycle23,
\* each name once, 48 in all when the generator ends; and lazily: no load is
\* made before the pair it belongs to is requested, and a consumer holding n
\* pairs of a generator has caused exactly n loads.
C7_FortyEightPairsLazily ==
  /\ Len(yielded) <= 48
  /\ yielded = SubSeq(ExpectedNames, 1, Len(yielded))
  /\ \A a \in 1..Len(yielded) : \A b \in 1..Len(yielded) :
       yielded[a] = yielded[b] => a = b
  /\ gen_pc = "done" => (Len(yielded) = 48 /\ requests = 49 /\ Len(loaded) = 48)
  /\ loaded = SubSeq(ExpectedNames, 1, Len(loaded))
  /\ Len(loaded) <= requests
  /\ gen_pc \in {"created", "suspended"} =>
       (Len(loaded) = Len(yielded) /\ requests = Len(yielded))
  /\ gen_pc = "suspended" => last.name = yielded[Len(yielded)]

\* a generator has been run to its end
C7_Witness ==
  /\ gen_pc = "done"
  /\ Len(yielded) = 48
  /\ yielded[1] = <<1, 0>>
  /\ yielded[25] = <<2, 0>>
  /\ yielded[48] = <<2, 23>>

----------------------------------------------------------------------------
(* Claims about process_potential_estimates (SpecCycle) *)

\* C2: when the number of enumerated subsets is not a multiple of 5,
\* process_potential_estimates raises and returns no point array.
C2_FailsUnlessDivisibleBy5 ==
  (pc \in {"returned", "raised"} /\ Len(mic_list) % 5 # 0) =>
     /\ pc = "raised"
     /\ result.kind = "raise"

\* The steps of a call end in the outcome ProcessOutcome computes in one go.
ProcessAgrees ==
  (pc \in {"returned", "raised"}) => result = ProcessOutcome(all_sound_data, s1_bool)

\* the workers started and not yet joined, over all rounds of the call
Unjoined ==
  {rb \in (1..Len(threads)) \X (1..5) :
     threads[rb[1]][rb[2]].state \in {"started", "finished"}}

\* C3: at most 5 workers are started and not yet joined, and a worker of a
\* round is started only when all 5 workers of the round before have finished
\* and been joined.
C3_RoundBarrier ==
  /\ Cardinality(Unjoined) <= 5
  /\ \A r \in 2..Len(threads) : \A b \in 1..5 :
       threads[r][b].state # "created" =>
         \A a \in 1..5 : threads[r - 1][a].state = "joined"

\* in the second round all five workers run, the last has finished and the
\* first has not
C3_Witness ==
  /\ Len(threads) = 2
  /\ Cardinality(Unjoined) = 5
  /\ threads[2][5].state = "finished"
  /\ threads[2][1].state = "started"

\* the workers of the call whose get_estimates failed
FailedWorkers ==
  {rb \in (1..Len(threads)) \X (1..5) : threads[rb[1]][rb[2]].ret.kind = "raise"}

PointsPerBlock == num_sources * Len(radius)

\* the block of points at block-position p (0-based) of a returned array
Block(points, p) == SubSeq(points, p * PointsPerBlock + 1, (p + 1) * PointsPerBlock)

\* the estimate of enumerated subset number n (0-based), in room coordinates
EstimateOfSubset(n) == Recentre(<<get_estimates(all_sound_data, mic_list[n + 1]).value>>)

\* C5: the returned array is ordered round-major, then batch-major: the block
\* at block-position 5 r + b is the estimate of subset number b * splits + r.
C5_RoundMajorOrder ==
  (pc = "returned") =>
     /\ Len(result.value) = 5 * splits * PointsPerBlock
     /\ \A r \in 0..(splits - 1) : \A b \in 0..4 :
          Block(result.value, 5 * r + b) = EstimateOfSubset(b * splits + r)

\* a returned array of 4 rounds in which the order shows: the second block is
\* not the estimate of the second enumerated subset
C5_Witness ==
  /\ pc = "returned"
  /\ splits = 4
  /\ Block(result.value, 1) # EstimateOfSubset(1)
  /\ Block(result.value, 1) # Block(result.value, 5)

\* C6: the calls made on one instance with the same signal matrix and the
\* same pool selector have the same outcome, whatever the workers' interleaving.
C6_SameInputsSameOutput ==
  \A a \in 1..Len(runs) : \A b \in 1..Len(runs) : runs[a] = runs[b]

\* two calls have returned point arrays
C6_Witness ==
  /\ Len(runs) >= 2
  /\ runs[1].kind = "return"
  /\ runs[2].kind = "return"
  /\ Len(runs[2].value) = 20 * PointsPerBlock

\* the threads of the current call made for enumerated subset number n
\* (1-based), as <<round, position>>
ThreadsOfSubset(n) ==
  {rb \in (1..Len(threads)) \X (1..5) : threads[rb[1]][rb[2]].args = mic_list[n]}

\* the threads of the current call whose target has run
Invoked ==
  {rb \in (1..Len(threads)) \X (1..5) :
     threads[rb[1]][rb[2]].state \in {"finished", "joined"}}

\* C12: with combinations_number = 3 a call enumerates exactly 20 distinct
\* 3-microphone subsets of the 6-microphone pool, splits them into 5 batches
\* of 4, and runs get_estimates at most once per subset while it is under way
\* and exactly once per subset when it returns; the output then holds exactly
\* the 20 blocks the 20 threads returned.
C12_TwentySubsetsOnceEach ==
  (combinations_number = 3 /\ pc # "idle") =>
     /\ Len(mics) = 6
     /\ Len(mic_list) = 20
     /\ \A a \in 1..20 :
          /\ Range(mic_list[a]) \subseteq Range(mics)
          /\ Cardinality(Range(mic_list[a])) = 3
          /\ \A b \in 1..20 : a # b => Range(mic_list[a]) # Range(mic_list[b])
     /\ Len(mic_split_list) = 5
     /\ \A b \in 1..5 : Len(mic_split_list[b]) = 4
     /\ Flatten(mic_split_list) = mic_list
     /\ \A rb \in (1..Len(threads)) \X (1..5) :
          \E n \in 1..20 : threads[rb[1]][rb[2]].args = mic_list[n]
     /\ \A n \in 1..20 : Cardinality(ThreadsOfSubset(n) \cap Invoked) <= 1
     /\ (pc = "returned") =>
          /\ \A n \in 1..20 : Cardinality(ThreadsOfSubset(n) \cap Invoked) = 1
          /\ Cardinality(Invoked) = 20
          /\ Len(outputs_list) = 20
          /\ \A r \in 1..4 : \A b \in 1..5 :
               outputs_list[5 * (r - 1) + b] = threads[r][b].ret.value
          /\ Len(result.value) = 20 * PointsPerBlock

\* a call with combinations_number = 3 has returned after 4 rounds of 5
\* threads, the last of them run on the last enumerated subset
C12_Witness ==
  /\ pc = "returned"
  /\ combinations_number = 3
  /\ Len(threads) = 4
  /\ threads[4][5].state = "joined"
  /\ threads[4][5].args = mic_list[20]
  /\ Len(outputs_list) = 20

----------------------------------------------------------------------------
(* Claims about get_mic_match_with_sound_data and get_estimates (SpecEst) *)

KnownMicrophones == DOMAIN create_microphone_locations_list

\* C8: a signal matrix whose row count differs from the microphone count (12)
\* makes get_mic_match_with_sound_data fail with a ValueError, an error and
\* not a returned value, and get_estimates on it surfaces that mismatch error.
C8_MismatchIsRaised ==
  (Len(arg_data) # Cardinality(KnownMicrophones)) =>
     /\ est_pc \in {"matched", "done"} =>
          /\ match_result.kind = "raise"
          /\ match_result.exc = "ValueError"
     /\ (est_pc = "done" /\ arg_mics # <<>> /\ Len(arg_data) # 0) =>
          /\ est_result.kind = "raise"
          /\ est_result.msg = MismatchText

\* C9: for a 12-row signal matrix and a non-empty list of requested
\* microphones, the returned signal list and location list have one entry per
\* requested name, the i-th being row j-1 and layout entry j-1 (0-based) of
\* the i-th requested microphone mic j.
C9_MatchKeepsOrderAndLength ==
  ( /\ est_pc \in {"matched", "done"}
    /\ Len(arg_data) = Cardinality(KnownMicrophones)
    /\ arg_mics # <<>>
    /\ Range(arg_mics) \subseteq KnownMicrophones ) =>
     /\ match_result.kind = "return"
     /\ match_result.value.type = "tuple"
     /\ Len(match_result.value.signal_list) = Len(arg_mics)
     /\ Len(match_result.value.mic_location) = Len(arg_mics)
     /\ \A i \in 1..Len(arg_mics) :
          /\ match_result.value.signal_list[i] = arg_data[arg_mics[i]]
          /\ match_result.value.mic_location[i] =
               create_microphone_locations_list[arg_mics[i]]

\* a request of two different microphones, the larger first, has been matched
C9_Witness ==
  /\ est_pc = "matched"
  /\ Len(arg_data) = Cardinality(KnownMicrophones)
  /\ Len(arg_mics) = 2
  /\ Range(arg_mics) \subseteq KnownMicrophones
  /\ arg_mics[1] > arg_mics[2]
  /\ arg_data[arg_mics[1]] # arg_data[arg_mics[2]]
  /\ match_result.kind = "return"

\* the requested names that are microphones, and the mean of their locations
OwnMicrophones == SelectSeq(arg_mics, LAMBDA m : m \in KnownMicrophones)

OwnCentroid ==
  [c \in 1..3 |->
     SumSeq([i \in 1..Len(OwnMicrophones) |->
               create_microphone_locations_list[OwnMicrophones[i]][c]])
       \div Len(OwnMicrophones)]

\* the unit direction of source i, from the adapter's angles for this subset
OwnDirection(i) ==
  LET doa == difference_of_arrivals(
               [m \in 1..Len(OwnMicrophones) |-> arg_data[OwnMicrophones[m]]],
               Locs(OwnMicrophones)).value
      az == doa.azimuth_recon[i]
      co == doa.colatitude_recon[i]
  IN  <<Cos4(az) * Sin4(co), Sin4(az) * Sin4(co), Cos4(co)>>

\* C10: get_estimates for one subset returns num_sources * len(radius) points:
\* for each source i a contiguous group of len(radius) points, the r-th being
\* radius_r times source i's unit direction plus the centroid of the subset's
\* own microphones.
C10_PointsPerSourceAroundOwnCentroid ==
  (est_pc = "done" /\ est_result.kind = "return") =>
     /\ Len(est_result.value) = num_sources * Len(radius)
     /\ \A i \in 1..num_sources : \A r \in 1..Len(radius) :
          est_result.value[(i - 1) * Len(radius) + r] =
            [c \in 1..3 |-> radius[r] * OwnDirection(i)[c] + OwnCentroid[c]]

\* two sources with different directions, for a subset of two microphones
\* whose centroid is not the whole array's
C10_Witness ==
  /\ est_pc = "done"
  /\ est_result.kind = "return"
  /\ num_sources = 2
  /\ Len(OwnMicrophones) = 2
  /\ OwnDirection(1) # OwnDirection(2)
  /\ OwnCentroid # GlobalCentroid

----------------------------------------------------------------------------
(* Claims about get_sound_data (SpecKey) *)

\* C11: for a name outside {S1, S2} x {Cycle0..Cycle23}, get_sound_data
\* fails with a NameError and nothing is loaded from the store, whatever
\* recovered is; for a name inside, exactly the file of that source and
\* cycle is loaded, from the Recovered directory iff recovered is true.
C11_KeyResolution ==
  (key_pc = "done") =>
     IF arg_name[1] \in {1, 2} /\ arg_name[2] \in 0..23
     THEN /\ store_log = << [recovered_dir |-> recovered,
                             source |-> arg_name[1],
                             cycle |-> arg_name[2]] >>
          /\ data_result.kind = "return"
          /\ data_result.value = loadmat(store_log[1])[arg_name[1]]
     ELSE /\ data_result.kind = "raise"
          /\ data_result.exc = "NameError"
          /\ store_log = <<>>

\* S1_Cycle24 has been refused on an instance with recovered = True
C11_Witness ==
  /\ key_pc = "done"
  /\ arg_name = <<1, 24>>
  /\ recovered
  /\ data_result.kind = "raise"
  /\ store_log = <<>>

====
